---- MODULE Spec2Model ----
(***************************************************************************)
(* Model of the ATGT poll loop (src/main.py) and of the video-to-subtitle  *)
(* pipeline (src/video_processor.py).  One sequential process: main()'s    *)
(* while-loop, the per-file calls process_file and process_video, and the  *)
(* local and remote file stores they act on.                               *)
(***************************************************************************)
EXTENDS Integers, Sequences, FiniteSets, TLC

\* ------------------------------------------------------------------ bounds
MaxCycles == 2      \* poll-loop iterations explored (over all sessions)
MaxRestarts == 1    \* process restarts explored
MaxSegs == 2        \* longest segment list the recognizer returns
MaxFaults == 1      \* failures of the environment explored in one run
MaxUnits == 3       \* most paragraphs or pages of a document to translate

\* --------------------------------------------------------- names and paths
\* A file name is a sequence of tokens; its last token may be an extension.
AI_SUFFIX == "_AI_Translated"
Exts == {".srt", ".txt", ".mp4", ".wav", ".docx", ".pdf"}
\* The files present when the program starts: the videos of the language
\* folders and the text files of the translation folder, by stem.
VideoStems == <<"v1">>
TextStems == <<"t1">>
NumVideos == Len(VideoStems)
NumTexts == Len(TextStems)

\* os.path.splitext: <<root, ext>>; a leading extension-like token is no extension.
splitext(name) ==
    IF Len(name) >= 2 /\ name[Len(name)] \in Exts
    THEN <<SubSeq(name, 1, Len(name) - 1), <<name[Len(name)]>>>>
    ELSE <<name, <<>>>>

\* str.lower on a language code, a sequence of letters.
LowerChar(c) ==
    CASE c = "N" -> "n" [] c = "L" -> "l" [] c = "D" -> "d"
      [] c = "E" -> "e" [] OTHER -> c
lower(s) == [i \in 1..Len(s) |-> LowerChar(s[i])]

\* The None value of Python, for codes, paths and handles.
None == <<"None">>

\* ------------------------------------------------------ local file stores
\* A directory is a function from file names to contents.
Put(dir, name, content) ==
    [n \in (DOMAIN dir) \cup {name} |-> IF n = name THEN content ELSE dir[n]]
Del(dir, name) == [n \in (DOMAIN dir) \ {name} |-> dir[n]]
Exists(dir, name) == name \in DOMAIN dir
EmptyDir == [n \in {} |-> <<>>]

\* --------------------------------------------------------------- folders
OUTPUT_FOLDER_ID == "OUTPUT"
TEXT_TRANSLATION_FOLDER_ID == "TEXT"
VIDEO_FOLDERS ==
    << [language |-> "Dutch",   code |-> <<"n", "l">>, folder_id |-> "VID_NL"],
       [language |-> "German",  code |-> <<"d", "e">>, folder_id |-> "VID_DE"],
       [language |-> "English", code |-> <<"e", "n">>, folder_id |-> "VID_EN"],
       [language |-> "Other",   code |-> None,         folder_id |-> "VID_OTHER"] >>

is_video_file(mime) == mime = "video/mp4"

\* ------------------------------------------------------------- segments
\* A recognized segment: start and end in milliseconds, raw text as characters.
Texts == {<<" ">>, <<"a">>}
Segment(t) == [start |-> 0, end |-> 1500, text |-> t]
Segments == {Segment(t) : t \in Texts}
SegLists == UNION {[1..n -> Segments] : n \in 0..MaxSegs}

IsSpace(c) == c = " "
RECURSIVE lstrip(_)
lstrip(s) == IF s # <<>> /\ IsSpace(Head(s)) THEN lstrip(Tail(s)) ELSE s
RECURSIVE rstrip(_)
rstrip(s) ==
    IF s # <<>> /\ IsSpace(s[Len(s)]) THEN rstrip(SubSeq(s, 1, Len(s) - 1)) ELSE s
strip(s) == rstrip(lstrip(s))

\* ------------------------------------------------------------ timestamps
\* _format_timestamp works on a binary floating-point number of seconds.  A time
\* is given here in whole milliseconds t and stands for the double nearest to
\* t/1000.  (seconds % 1) * 1000 is computed in doubles and truncated by int():
\* for the times listed here the product falls just below the whole number.
TruncatedLow == {1001, 1003, 61001, 3599999, 86399999}

\* Mutant: the minutes are not reduced to the hour.
format_timestamp_MinutesOfDay(t) ==
    [hours        |-> t \div 3600000,
     minutes      |-> t \div 60000,
     seconds      |-> (t % 60000) \div 1000,
     milliseconds |-> (t % 1000) - (IF t \in TruncatedLow THEN 1 ELSE 0)]

\* Lines 236-240: the four fields.
format_timestamp(t) ==
    [hours        |-> t \div 3600000,
     minutes      |-> (t % 3600000) \div 60000,
     seconds      |-> (t % 60000) \div 1000,
     milliseconds |-> (t % 1000) - (IF t \in TruncatedLow THEN 1 ELSE 0)]

\* Line 241: the fields rendered as HH:MM:SS,mmm; {n:02d} pads with zeros to at
\* least two digits and keeps a longer number whole.
DigitChars == <<"0", "1", "2", "3", "4", "5", "6", "7", "8", "9">>
RECURSIVE Digits(_)
Digits(n) ==
    IF n < 10 THEN <<DigitChars[n + 1]>>
    ELSE Digits(n \div 10) \o <<DigitChars[(n % 10) + 1]>>
RECURSIVE ZeroPad(_, _)
ZeroPad(digits, width) ==
    IF Len(digits) >= width THEN digits ELSE ZeroPad(<<"0">> \o digits, width)
timestamp_text(fields) ==
    ZeroPad(Digits(fields.hours), 2) \o <<":">>
    \o ZeroPad(Digits(fields.minutes), 2) \o <<":">>
    \o ZeroPad(Digits(fields.seconds), 2) \o <<",">>
    \o ZeroPad(Digits(fields.milliseconds), 3)

\* ------------------------------------------------------- subtitle writer
\* Mutant: the text is tested and written as it comes, without strip().
RECURSIVE SrtBlocks_RawText(_, _, _)
SrtBlocks_RawText(segments, i, last) ==
    IF i > last THEN <<>>
    ELSE LET text == segments[i].text
             block == [index |-> i,
                       start |-> format_timestamp(segments[i].start),
                       end   |-> format_timestamp(segments[i].end),
                       text  |-> text]
         IN (IF text = <<>> THEN <<>> ELSE <<block>>)
            \o SrtBlocks_RawText(segments, i + 1, last)

\* The blocks written for segments i..last; enumerate(segments, 1) numbers every
\* segment, and a blank one is skipped by `continue`.
RECURSIVE SrtBlocks(_, _, _)
SrtBlocks(segments, i, last) ==
    IF i > last THEN <<>>
    ELSE LET text == strip(segments[i].text)
             block == [index |-> i,
                       start |-> format_timestamp(segments[i].start),
                       end   |-> format_timestamp(segments[i].end),
                       text  |-> text]
         IN (IF text = <<>> THEN <<>> ELSE <<block>>)
            \o SrtBlocks(segments, i + 1, last)

\* Mutant: without the test of lines 211-213 an empty list reaches open().
write_srt_NoEmptyCheck(segments, failAt) ==
    IF failAt = 0 THEN [ret |-> FALSE, created |-> FALSE, blocks |-> <<>>]
    ELSE IF failAt <= Len(segments)
         THEN [ret |-> FALSE, created |-> TRUE,
               blocks |-> SrtBlocks(segments, 1, failAt - 1)]
    ELSE [ret |-> TRUE, created |-> TRUE,
          blocks |-> SrtBlocks(segments, 1, Len(segments))]

\* _write_srt(segments, output_path).  failAt = 0: open() raises; failAt = i in
\* 1..Len: an exception is raised while segment i is handled, after the blocks of
\* the segments before it were written; failAt = Len + 1: nothing fails.
\* Result: the return value, whether the file now exists, and its blocks.
write_srt(segments, failAt) ==
    IF segments = <<>> THEN [ret |-> FALSE, created |-> FALSE, blocks |-> <<>>]
    ELSE IF failAt = 0 THEN [ret |-> FALSE, created |-> FALSE, blocks |-> <<>>]
    ELSE IF failAt <= Len(segments)
         THEN [ret |-> FALSE, created |-> TRUE,
               blocks |-> SrtBlocks(segments, 1, failAt - 1)]
    ELSE [ret |-> TRUE, created |-> TRUE,
          blocks |-> SrtBlocks(segments, 1, Len(segments))]

\* ------------------------------------------------------------------ state
VARIABLES
    pc,               \* position of the single process
    cycle,            \* poll-loop iterations begun
    restarts,         \* process restarts so far
    processed_files,  \* main(): ids processed in this session
    files,            \* the rest of the listing the current for-loop iterates
    folder,           \* index into VIDEO_FOLDERS of the folder being visited
    video_processor,  \* main(): the VideoProcessor of this cycle, if constructed
    drive,            \* the remote store: a set of file records
    nextId,           \* next remote file id
    cache,            \* Data/Cache
    output_dir,       \* Data/Output, the local archive
    data,             \* Data, the working directory of process_file
    cur,              \* the file the per-file call is working on
    loc,              \* the per-file call's local variables
    ret,              \* the per-file call's return value: "none", "True", "False"
    steps,            \* history: the steps this per-file call performed, in order
    uploads,          \* history: the destinations this per-file call uploaded to
    faults,           \* history: failures of the environment so far
    rmFailed,         \* history: an os.remove has failed, its file is still on disk
    preexisting,      \* history: the call began with its output already present
    recognized,       \* history: recognizer invocations per video in this cycle
    loads,            \* history: model loads of this session, in order
    speech            \* environment: what is spoken in each video, as segments

mainVars == <<pc, cycle, restarts, processed_files, files, folder, video_processor>>
storeVars == <<drive, nextId, cache, output_dir, data>>
callVars == <<cur, loc, ret>>
histVars == <<steps, uploads, faults, rmFailed, preexisting, recognized, loads>>
envVars == <<speech>>
loopVars == <<cycle, restarts, processed_files, files, folder, video_processor>>
vars == <<mainVars, storeVars, callVars, histVars, envVars>>

NoFile == [id |-> 0, name |-> <<>>, parent |-> "", mimeType |-> "", body |-> <<>>]
NoLocals ==
    [lang_code |-> None, video_path |-> None, audio_path |-> None,
     srt_path |-> None, result |-> "none", segments |-> <<>>, tv_ret |-> None,
     file_path |-> None, translated_path |-> None]
NoProcessor == [constructed |-> FALSE, model |-> FALSE]

VideoIds == 1..NumVideos
TextIds == (NumVideos + 1)..(NumVideos + NumTexts)
FolderIds == {VIDEO_FOLDERS[i].folder_id : i \in 1..Len(VIDEO_FOLDERS)}

\* What follows the stem in the name of a text file found in the translation
\* folder: an extension, or the suffix of a translated file and an extension.
TextTails == {<<".srt">>, <<".txt">>, <<AI_SUFFIX, ".srt">>}

\* A text file's content: one block, as a subtitle file holds them.
TextBody == <<[index |-> 1, start |-> format_timestamp(0),
               end |-> format_timestamp(1500), text |-> <<"a">>]>>

Init ==
    /\ pc = "main_top"
    /\ cycle = 1
    /\ restarts = 0
    /\ processed_files = {}
    /\ files = <<>>
    /\ folder = 0
    /\ video_processor = NoProcessor
    /\ \E place \in [VideoIds -> FolderIds], tail \in [TextIds -> TextTails] :
          drive = {[id |-> v, name |-> <<VideoStems[v], ".mp4">>,
                    parent |-> place[v], mimeType |-> "video/mp4",
                    body |-> <<>>] : v \in VideoIds}
                  \cup
                  {[id |-> t, name |-> <<TextStems[t - NumVideos]>> \o tail[t],
                    parent |-> TEXT_TRANSLATION_FOLDER_ID,
                    mimeType |-> "text/plain", body |-> TextBody] : t \in TextIds}
    /\ nextId = NumVideos + NumTexts + 1
    /\ cache = EmptyDir
    /\ output_dir = EmptyDir
    /\ data = EmptyDir
    /\ cur = NoFile
    /\ loc = NoLocals
    /\ ret = "none"
    /\ steps = <<>>
    /\ uploads = <<>>
    /\ faults = 0
    /\ rmFailed = FALSE
    /\ preexisting = FALSE
    /\ recognized = [v \in VideoIds |-> 0]
    /\ loads = <<>>
    /\ speech \in [VideoIds -> SegLists]

\* ------------------------------------------------------------- listing
TokOrder == <<".mp4", ".srt", ".txt", ".wav", "_AI_Translated">> \o TextStems \o VideoStems
TokRank(tok) == CHOOSE i \in 1..Len(TokOrder) : TokOrder[i] = tok
RECURSIVE NameLess(_, _)
NameLess(a, b) ==
    IF b = <<>> THEN FALSE
    ELSE IF a = <<>> THEN TRUE
    ELSE IF Head(a) = Head(b) THEN NameLess(Tail(a), Tail(b))
    ELSE TokRank(Head(a)) < TokRank(Head(b))
FileBefore(f, g) ==
    NameLess(f.name, g.name) \/ (f.name = g.name /\ f.id <= g.id)
RECURSIVE OrderByName(_)
OrderByName(S) ==
    IF S = {} THEN <<>>
    ELSE LET first == CHOOSE f \in S : \A g \in S : FileBefore(f, g)
         IN <<first>> \o OrderByName(S \ {first})

\* list_files(folder_id): the folder's files ordered by name, or [] when the
\* query raises.
list_files(folder_id, ok) ==
    IF ok THEN OrderByName({f \in drive : f.parent = folder_id}) ELSE <<>>

\* ------------------------------------------------------------ failures
\* What a call into the environment (the remote store, the disk, a library) may
\* do when `used` failures were already drawn in the same step: succeed, or fail
\* while the failures of the run stay within the bound.
Try(used) == IF faults + used < MaxFaults THEN BOOLEAN ELSE {TRUE}
Outcomes(all, good) == IF faults < MaxFaults THEN all ELSE {good}
Count(failed) == IF failed THEN 1 ELSE 0

Log(name, ok) == steps' = Append(steps, [name |-> name, ok |-> ok])

\* os.remove inside try/except (lines 181-186, 310-315): a failure is logged.
Remove(dir, path, ok) ==
    IF path # None /\ Exists(dir, path) /\ ok THEN Del(dir, path) ELSE dir
RemoveFails(dir, path, ok) == path # None /\ Exists(dir, path) /\ ~ok

\* ----------------------------------------------------------- main loop
\* main(), lines 404-410: a new iteration lists the translation folder.
MainTop ==
    /\ pc = "main_top"
    /\ \E ok \in Try(0) :
          /\ files' = list_files(TEXT_TRANSLATION_FOLDER_ID, ok)
          /\ faults' = faults + Count(~ok)
    /\ pc' = "text_loop"
    /\ recognized' = [v \in VideoIds |-> 0]
    /\ UNCHANGED <<cycle, restarts, processed_files, folder, video_processor>>
    /\ UNCHANGED <<storeVars, callVars, envVars>>
    /\ UNCHANGED <<steps, uploads, rmFailed, preexisting, loads>>

\* Mutant: the skip test looks at the processed set only.
TextSkipped_ProcessedOnly(file) == file.id \in processed_files

\* The skip test of the text pass, lines 417-419.
lower_name(name) ==
    [i \in 1..Len(name) |->
        IF name[i] = AI_SUFFIX THEN "_ai_translated" ELSE name[i]]
endswith_ai_translated_srt(name) ==
    /\ Len(name) >= 2
    /\ name[Len(name) - 1] = "_ai_translated"
    /\ name[Len(name)] = ".srt"
TextSkipped(file) ==
    \/ file.id \in processed_files
    \/ \E i \in 1..Len(file.name) : file.name[i] = AI_SUFFIX
    \/ endswith_ai_translated_srt(lower_name(file.name))

\* main(), lines 412-423: the next file of the text pass.
TextVisit ==
    /\ pc = "text_loop"
    /\ files # <<>>
    /\ files' = Tail(files)
    /\ IF TextSkipped(Head(files))
       THEN UNCHANGED <<pc, cur>>
       ELSE pc' = "pf_check" /\ cur' = Head(files)
    /\ UNCHANGED <<cycle, restarts, processed_files, folder, video_processor>>
    /\ UNCHANGED <<storeVars, loc, ret, histVars, envVars>>

\* main(), lines 426-428: the text pass is over; no VideoProcessor yet.
TextDone ==
    /\ pc = "text_loop"
    /\ files = <<>>
    /\ video_processor' = NoProcessor
    /\ folder' = 1
    /\ pc' = "video_folders"
    /\ UNCHANGED <<cycle, restarts, processed_files, files>>
    /\ UNCHANGED <<storeVars, callVars, histVars, envVars>>

\* main(), lines 430-437: list the next language folder.
FolderList ==
    /\ pc = "video_folders"
    /\ folder <= Len(VIDEO_FOLDERS)
    /\ \E ok \in Try(0) :
          /\ files' = list_files(VIDEO_FOLDERS[folder].folder_id, ok)
          /\ faults' = faults + Count(~ok)
    /\ pc' = "video_loop"
    /\ UNCHANGED <<cycle, restarts, processed_files, folder, video_processor>>
    /\ UNCHANGED <<storeVars, callVars, envVars>>
    /\ UNCHANGED <<steps, uploads, rmFailed, preexisting, recognized, loads>>

\* main(), line 457: every folder was visited.
FoldersDone ==
    /\ pc = "video_folders"
    /\ folder > Len(VIDEO_FOLDERS)
    /\ pc' = "sleep"
    /\ folder' = 0
    /\ UNCHANGED <<cycle, restarts, processed_files, files, video_processor>>
    /\ UNCHANGED <<storeVars, callVars, histVars, envVars>>

\* main(), lines 439-448: the next file of a language folder.
VideoVisit ==
    /\ pc = "video_loop"
    /\ files # <<>>
    /\ files' = Tail(files)
    /\ IF Head(files).id \notin processed_files /\ is_video_file(Head(files).mimeType)
       THEN /\ cur' = Head(files)
            /\ pc' = IF video_processor.constructed THEN "pv_start" ELSE "vp_init"
       ELSE UNCHANGED <<pc, cur>>
    /\ UNCHANGED <<cycle, restarts, processed_files, folder, video_processor>>
    /\ UNCHANGED <<storeVars, loc, ret, histVars, envVars>>

\* main(), lines 430 and 439: the folder's listing is exhausted.
VideoDone ==
    /\ pc = "video_loop"
    /\ files = <<>>
    /\ folder' = folder + 1
    /\ pc' = "video_folders"
    /\ UNCHANGED <<cycle, restarts, processed_files, files, video_processor>>
    /\ UNCHANGED <<storeVars, callVars, histVars, envVars>>

\* main(), lines 458 and 404: sleep, then the next iteration.
Sleep ==
    /\ pc = "sleep"
    /\ cycle < MaxCycles
    /\ cycle' = cycle + 1
    /\ pc' = "main_top"
    /\ UNCHANGED <<restarts, processed_files, files, folder, video_processor>>
    /\ UNCHANGED <<storeVars, callVars, histVars, envVars>>

\* The process is stopped between two iterations and started again: main()
\* begins with an empty processed set (line 402); the stores keep their files.
Restart ==
    /\ pc = "sleep"
    /\ cycle < MaxCycles
    /\ restarts < MaxRestarts
    /\ restarts' = restarts + 1
    /\ cycle' = cycle + 1
    /\ processed_files' = {}
    /\ video_processor' = NoProcessor
    /\ loads' = <<>>
    /\ pc' = "main_top"
    /\ UNCHANGED <<files, folder>>
    /\ UNCHANGED <<storeVars, callVars, envVars>>
    /\ UNCHANGED <<steps, uploads, faults, rmFailed, preexisting, recognized>>

\* VideoProcessor.__init__, called at main() line 448.  The model load is
\* guarded (lines 43-53); the directory creation before it is not, and an
\* exception there reaches the except of main()'s loop (lines 460-463).
VPInit ==
    /\ pc = "vp_init"
    /\ \E outcome \in Outcomes({"loaded", "load_failed", "raise"}, "loaded") :
          /\ faults' = faults + Count(outcome # "loaded")
          /\ IF outcome = "raise"
             THEN /\ pc' = "sleep"
                  /\ cur' = NoFile
                  /\ files' = <<>>
                  /\ folder' = 0
                  /\ UNCHANGED <<video_processor, loads>>
             ELSE /\ video_processor' =
                        [constructed |-> TRUE, model |-> outcome = "loaded"]
                  /\ loads' = Append(loads, outcome = "loaded")
                  /\ pc' = "pv_start"
                  /\ UNCHANGED <<cur, files, folder>>
    /\ UNCHANGED <<cycle, restarts, processed_files>>
    /\ UNCHANGED <<storeVars, loc, ret, envVars>>
    /\ UNCHANGED <<steps, uploads, rmFailed, preexisting, recognized>>

\* -------------------------------------------------------- process_video
\* Lines 61-68: the recognizer's language code; an absent code becomes 'en'.
LangCode(language_info) ==
    IF language_info.code = None \/ language_info.code = <<>>
    THEN <<"e", "n">>
    ELSE language_info.code

\* Mutant: the two destinations exchanged.
Destination_Swapped(lang_code) ==
    IF lower(lang_code) = <<"n", "l">>
    THEN TEXT_TRANSLATION_FOLDER_ID
    ELSE OUTPUT_FOLDER_ID

\* Mutant: every subtitle file goes to the output folder.
Destination_AlwaysOutput(lang_code) == OUTPUT_FOLDER_ID

\* Lines 87-100: the folder the subtitle file is uploaded to.
Destination(lang_code) ==
    IF lower(lang_code) = <<"n", "l">>
    THEN OUTPUT_FOLDER_ID
    ELSE TEXT_TRANSLATION_FOLDER_ID

\* The paths derived from the video's name (lines 121, 162).
WavPath(video_path) == splitext(video_path)[1] \o <<".wav">>
SrtPath(video_path) == splitext(video_path)[1] \o <<".srt">>

\* Lines 57-73.
PVStart ==
    /\ pc = "pv_start"
    /\ loc' = [NoLocals EXCEPT
                 !.lang_code = LangCode(VIDEO_FOLDERS[folder]),
                 !.video_path = cur.name]
    /\ ret' = "none"
    /\ steps' = <<>>
    /\ uploads' = <<>>
    /\ preexisting' =
          \E f \in drive :
             /\ f.parent = Destination(LangCode(VIDEO_FOLDERS[folder]))
             /\ f.name = SrtPath(cur.name)
    /\ pc' = "pv_download"
    /\ UNCHANGED <<loopVars, storeVars, cur, faults, rmFailed, recognized, loads, envVars>>

\* Line 74, _download_file (273-286): open(destination_path, 'wb') creates the
\* file before the first chunk arrives; any exception is raised again.
PVDownload ==
    /\ pc = "pv_download"
    /\ \E outcome \in Outcomes({"ok", "open_fails", "chunk_fails"}, "ok") :
          /\ faults' = faults + Count(outcome # "ok")
          /\ cache' = IF outcome = "open_fails" THEN cache
                      ELSE Put(cache, loc.video_path, <<>>)
          /\ Log("download", outcome = "ok")
          /\ IF outcome = "ok"
             THEN pc' = "tv_extract" /\ UNCHANGED ret
             ELSE pc' = "pv_finally" /\ ret' = "False"
    /\ UNCHANGED <<loopVars, drive, nextId, output_dir, data, cur, loc, envVars>>
    /\ UNCHANGED <<uploads, rmFailed, preexisting, recognized, loads>>

\* transcribe_video, lines 113-123: VideoFileClip may raise; a video without an
\* audio track has video.audio = None; write_audiofile may fail partway.
TVExtract ==
    /\ pc = "tv_extract"
    /\ \E outcome \in Outcomes({"ok", "clip_fails", "no_audio", "write_fails"}, "ok") :
          LET opened == Exists(cache, loc.video_path) /\ outcome # "clip_fails"
              wav == WavPath(loc.video_path)
          IN /\ faults' = faults + Count(outcome # "ok")
             /\ loc' = [loc EXCEPT !.audio_path = IF opened THEN wav ELSE None]
             /\ cache' = IF opened /\ outcome \in {"ok", "write_fails"}
                         THEN Put(cache, wav, <<>>) ELSE cache
             /\ Log("extract", opened /\ outcome = "ok")
             /\ pc' = IF opened /\ outcome = "ok" THEN "tv_model" ELSE "tv_finally"
    /\ UNCHANGED <<loopVars, drive, nextId, output_dir, data, cur, ret, envVars>>
    /\ UNCHANGED <<uploads, rmFailed, preexisting, recognized, loads>>

\* Lines 125-127: without a model, return None.
TVModel ==
    /\ pc = "tv_model"
    /\ Log("model", video_processor.model)
    /\ pc' = IF video_processor.model THEN "tv_prepare" ELSE "tv_finally"
    /\ UNCHANGED <<loopVars, storeVars, callVars, envVars>>
    /\ UNCHANGED <<uploads, faults, rmFailed, preexisting, recognized, loads>>

\* Line 130, prepare_audio (188-206): reading the waveform may raise.
TVPrepare ==
    /\ pc = "tv_prepare"
    /\ \E ok \in Try(0) :
          /\ faults' = faults + Count(~ok)
          /\ Log("prepare", ok)
          /\ pc' = IF ok THEN "tv_recognize" ELSE "tv_finally"
    /\ UNCHANGED <<loopVars, storeVars, callVars, envVars>>
    /\ UNCHANGED <<uploads, rmFailed, preexisting, recognized, loads>>

\* What self.model.transcribe may do on a video: return a dict with the
\* segments spoken in the video, or raise, or return something that is no dict
\* or a dict without 'segments'.
RecogResults(video_id) ==
    {[kind |-> k, segments |-> <<>>] :
        k \in Outcomes({"dict", "raise", "not_dict", "no_segments_key"}, "dict") \ {"dict"}}
    \cup {[kind |-> "dict", segments |-> speech[video_id]]}

\* The result is used as it comes, whatever its shape.
ValidResult_Unchecked(result) == result.kind # "raise"

\* Lines 145-157: the result must be a dict with a non-empty 'segments' list.
ValidResult(result) == result.kind = "dict" /\ result.segments # <<>>

\* Lines 134-159 and 170-173.
TVRecognize ==
    /\ pc = "tv_recognize"
    /\ \E result \in RecogResults(cur.id) :
          LET good == ValidResult(result)
          IN /\ faults' = faults + Count(result.kind # "dict")
             /\ loc' = [loc EXCEPT !.result = result.kind,
                                   !.segments = result.segments]
             /\ Log("recognize", good)
             /\ pc' = IF good THEN "tv_write" ELSE "tv_finally"
    /\ recognized' = [recognized EXCEPT ![cur.id] = @ + 1]
    /\ UNCHANGED <<loopVars, storeVars, cur, ret, envVars>>
    /\ UNCHANGED <<uploads, rmFailed, preexisting, loads>>

\* Lines 161-168: _write_srt into the cache; its path is returned on success.
TVWrite ==
    /\ pc = "tv_write"
    /\ \E failAt \in Outcomes(0..(Len(loc.segments) + 1), Len(loc.segments) + 1) :
          LET written == write_srt(loc.segments, failAt)
              srt == SrtPath(loc.video_path)
          IN /\ faults' = faults + Count(failAt <= Len(loc.segments))
             /\ cache' = IF written.created THEN Put(cache, srt, written.blocks)
                         ELSE cache
             /\ loc' = [loc EXCEPT !.tv_ret = IF written.ret THEN srt ELSE None]
             /\ Log("serialize", written.ret)
    /\ pc' = "tv_finally"
    /\ UNCHANGED <<loopVars, drive, nextId, output_dir, data, cur, ret, envVars>>
    /\ UNCHANGED <<uploads, rmFailed, preexisting, recognized, loads>>

\* Mutant: the finally of transcribe_video leaves the waveform file in place.
TVFinally_KeepsAudio ==
    /\ pc = "tv_finally"
    /\ loc' = [loc EXCEPT !.srt_path = loc.tv_ret]
    /\ IF loc.tv_ret = None
       THEN pc' = "pv_finally" /\ ret' = "False"
       ELSE pc' = "pv_archive" /\ UNCHANGED ret
    /\ UNCHANGED <<loopVars, storeVars, cur, envVars>>
    /\ UNCHANGED histVars

\* Lines 180-186, the finally of transcribe_video, then lines 77-79 of
\* process_video: srt_path is what transcribe_video returned.
TVFinally ==
    /\ pc = "tv_finally"
    /\ \E ok \in Try(0) :
          LET failed == RemoveFails(cache, loc.audio_path, ok)
          IN /\ ok \/ failed
             /\ cache' = Remove(cache, loc.audio_path, ok)
             /\ rmFailed' = (rmFailed \/ failed)
             /\ faults' = faults + Count(failed)
    /\ loc' = [loc EXCEPT !.srt_path = loc.tv_ret]
    /\ IF loc.tv_ret = None
       THEN pc' = "pv_finally" /\ ret' = "False"
       ELSE pc' = "pv_archive" /\ UNCHANGED ret
    /\ UNCHANGED <<loopVars, drive, nextId, output_dir, data, cur, envVars>>
    /\ UNCHANGED <<steps, uploads, preexisting, recognized, loads>>

\* Mutant: the copy guarded by its own try/except, so that the upload follows a
\* failed copy.
PVArchive_Advisory ==
    /\ pc = "pv_archive"
    /\ \E outcome \in Outcomes({"ok", "fails", "fails_partway"}, "ok") :
          /\ faults' = faults + Count(outcome # "ok")
          /\ output_dir' =
                CASE outcome = "ok" ->
                        Put(output_dir, loc.srt_path, cache[loc.srt_path])
                  [] outcome = "fails_partway" ->
                        Put(output_dir, loc.srt_path, <<>>)
                  [] OTHER -> output_dir
          /\ Log("archive", outcome = "ok")
    /\ pc' = "pv_upload"
    /\ UNCHANGED <<loopVars, drive, nextId, cache, data, cur, loc, ret, envVars>>
    /\ UNCHANGED <<uploads, rmFailed, preexisting, recognized, loads>>

\* Lines 81-84: shutil.copy2 into Data/Output; it is inside the try, so an
\* exception reaches the except of lines 104-106.
PVArchive ==
    /\ pc = "pv_archive"
    /\ \E outcome \in Outcomes({"ok", "fails", "fails_partway"}, "ok") :
          /\ faults' = faults + Count(outcome # "ok")
          /\ output_dir' =
                CASE outcome = "ok" ->
                        Put(output_dir, loc.srt_path, cache[loc.srt_path])
                  [] outcome = "fails_partway" ->
                        Put(output_dir, loc.srt_path, <<>>)
                  [] OTHER -> output_dir
          /\ Log("archive", outcome = "ok")
          /\ IF outcome = "ok"
             THEN pc' = "pv_upload" /\ UNCHANGED ret
             ELSE pc' = "pv_finally" /\ ret' = "False"
    /\ UNCHANGED <<loopVars, drive, nextId, cache, data, cur, loc, envVars>>
    /\ UNCHANGED <<uploads, rmFailed, preexisting, recognized, loads>>

\* Lines 86-102, _upload_srt (288-305): one files().create in the routed folder.
PVUpload ==
    /\ pc = "pv_upload"
    /\ \E ok \in Try(0) :
          LET dest == Destination(loc.lang_code)
          IN /\ faults' = faults + Count(~ok)
             /\ Log("upload", ok)
             /\ IF ok
                THEN /\ drive' = drive \cup
                          {[id |-> nextId, name |-> loc.srt_path, parent |-> dest,
                            mimeType |-> "application/octet-stream",
                            body |-> cache[loc.srt_path]]}
                     /\ nextId' = nextId + 1
                     /\ uploads' = Append(uploads, dest)
                     /\ ret' = "True"
                ELSE /\ ret' = "False"
                     /\ UNCHANGED <<drive, nextId, uploads>>
    /\ pc' = "pv_finally"
    /\ UNCHANGED <<loopVars, cache, output_dir, data, cur, loc, envVars>>
    /\ UNCHANGED <<rmFailed, preexisting, recognized, loads>>

\* Mutant: the cleanup removes the archived copy along with the cache files.
PVFinally_RemovesArchive ==
    /\ pc = "pv_finally"
    /\ \E okVideo \in Try(0) :
          LET failedVideo == RemoveFails(cache, loc.video_path, okVideo)
              afterVideo == Remove(cache, loc.video_path, okVideo)
          IN /\ okVideo \/ failedVideo
             /\ \E okSrt \in Try(Count(failedVideo)) :
                   LET failedSrt == RemoveFails(afterVideo, loc.srt_path, okSrt)
                   IN /\ okSrt \/ failedSrt
                      /\ cache' = Remove(afterVideo, loc.srt_path, okSrt)
                      /\ output_dir' = Remove(output_dir, loc.srt_path, okSrt)
                      /\ rmFailed' = (rmFailed \/ failedVideo \/ failedSrt)
                      /\ faults' = faults + Count(failedVideo) + Count(failedSrt)
    /\ pc' = "pv_return"
    /\ UNCHANGED <<loopVars, drive, nextId, data, callVars, envVars>>
    /\ UNCHANGED <<steps, uploads, preexisting, recognized, loads>>

\* Lines 108-109, _cleanup_files(video_path, srt_path) (307-315).
PVFinally ==
    /\ pc = "pv_finally"
    /\ \E okVideo \in Try(0) :
          LET failedVideo == RemoveFails(cache, loc.video_path, okVideo)
              afterVideo == Remove(cache, loc.video_path, okVideo)
          IN /\ okVideo \/ failedVideo
             /\ \E okSrt \in Try(Count(failedVideo)) :
                   LET failedSrt == RemoveFails(afterVideo, loc.srt_path, okSrt)
                   IN /\ okSrt \/ failedSrt
                      /\ cache' = Remove(afterVideo, loc.srt_path, okSrt)
                      /\ rmFailed' = (rmFailed \/ failedVideo \/ failedSrt)
                      /\ faults' = faults + Count(failedVideo) + Count(failedSrt)
    /\ pc' = "pv_return"
    /\ UNCHANGED <<loopVars, drive, nextId, output_dir, data, callVars, envVars>>
    /\ UNCHANGED <<steps, uploads, preexisting, recognized, loads>>

\* Mutant: the video is recorded as processed whatever process_video returned.
PVReturn_AlwaysProcessed ==
    /\ pc = "pv_return"
    /\ processed_files' = processed_files \cup {cur.id}
    /\ pc' = "video_loop"
    /\ cur' = NoFile
    /\ loc' = NoLocals
    /\ ret' = "none"
    /\ steps' = <<>>
    /\ uploads' = <<>>
    /\ preexisting' = FALSE
    /\ UNCHANGED <<cycle, restarts, files, folder, video_processor>>
    /\ UNCHANGED <<storeVars, faults, rmFailed, recognized, loads, envVars>>

\* main(), lines 451-455: only a successful video is recorded as processed.
PVReturn ==
    /\ pc = "pv_return"
    /\ processed_files' =
          IF ret = "True" THEN processed_files \cup {cur.id} ELSE processed_files
    /\ pc' = "video_loop"
    /\ cur' = NoFile
    /\ loc' = NoLocals
    /\ ret' = "none"
    /\ steps' = <<>>
    /\ uploads' = <<>>
    /\ preexisting' = FALSE
    /\ UNCHANGED <<cycle, restarts, files, folder, video_processor>>
    /\ UNCHANGED <<storeVars, faults, rmFailed, recognized, loads, envVars>>

\* --------------------------------------------------------- process_file
\* check_existing_translation of main.py (lines 31-55): the name looked for
\* always ends in .srt; a failing query counts as "exists".
check_existing_translation(file_name, ok) ==
    LET base_without_ext == splitext(file_name)[1]
        translated_name == base_without_ext \o <<AI_SUFFIX, ".srt">>
    IN IF ok
       THEN \E f \in drive : f.parent = OUTPUT_FOLDER_ID /\ f.name = translated_name
       ELSE TRUE

\* translate_file, lines 203-205: the name of the translated file.
new_file_name(file_name) ==
    splitext(file_name)[1] \o <<AI_SUFFIX>> \o splitext(file_name)[2]

\* The translated content: every block's text replaced by its translation.
Translate(body) == [i \in 1..Len(body) |-> [body[i] EXCEPT !.text = <<"T">> \o @]]

\* Lines 302-306.
PFCheck ==
    /\ pc = "pf_check"
    /\ loc' = NoLocals
    /\ uploads' = <<>>
    /\ \E ok \in Try(0) :
          /\ faults' = faults + Count(~ok)
          /\ steps' = <<[name |-> "check", ok |-> ok]>>
          /\ IF check_existing_translation(cur.name, ok)
             THEN pc' = "pf_finally" /\ ret' = "True"
             ELSE pc' = "pf_download" /\ ret' = "none"
    /\ preexisting' =
          \E f \in drive :
             f.parent = OUTPUT_FOLDER_ID /\ f.name = new_file_name(cur.name)
    /\ UNCHANGED <<loopVars, storeVars, cur, envVars>>
    /\ UNCHANGED <<rmFailed, recognized, loads>>

\* Lines 311-313, download_file (145-166): a failed download removes the partial
\* file and returns None; if that os.remove raises, the exception reaches the
\* except of process_file with file_path still unbound.
PFDownload ==
    /\ pc = "pf_download"
    /\ \E outcome \in Outcomes({"ok", "open_fails", "chunk_fails"}, "ok") :
       \E okRemove \in Try(Count(outcome # "ok")) :
          /\ outcome # "chunk_fails" => okRemove
          /\ data' = CASE outcome = "ok" -> Put(data, cur.name, cur.body)
                       [] outcome = "chunk_fails" /\ ~okRemove ->
                             Put(data, cur.name, <<>>)
                       [] OTHER -> data
          /\ rmFailed' = (rmFailed \/ ~okRemove)
          /\ faults' = faults + Count(outcome # "ok") + Count(~okRemove)
          /\ Log("download", outcome = "ok")
          /\ IF outcome = "ok"
             THEN /\ loc' = [loc EXCEPT !.file_path = cur.name]
                  /\ pc' = "pf_translate"
                  /\ UNCHANGED ret
             ELSE /\ pc' = "pf_finally"
                  /\ ret' = "False"
                  /\ UNCHANGED loc
    /\ UNCHANGED <<loopVars, drive, nextId, cache, output_dir, cur, envVars>>
    /\ UNCHANGED <<uploads, preexisting, recognized, loads>>

\* Lines 315-317, translate_file (199-269) for a text-based file: a failed
\* translation returns None before the output is opened; an exception while the
\* output is written removes the partial file (lines 261-269).
PFTranslate ==
    /\ pc = "pf_translate"
    /\ \E outcome \in Outcomes({"ok", "translation_fails", "write_fails"}, "ok") :
       \E okRemove \in Try(Count(outcome # "ok")) :
          LET new_file_path == new_file_name(loc.file_path)
          IN /\ outcome # "write_fails" => okRemove
             /\ data' = CASE outcome = "ok" ->
                                Put(data, new_file_path, Translate(data[loc.file_path]))
                          [] outcome = "write_fails" /\ ~okRemove ->
                                Put(data, new_file_path, <<>>)
                          [] OTHER -> data
             /\ rmFailed' = (rmFailed \/ ~okRemove)
             /\ faults' = faults + Count(outcome # "ok") + Count(~okRemove)
             /\ Log("translate", outcome = "ok")
             /\ IF outcome = "ok"
                THEN /\ loc' = [loc EXCEPT !.translated_path = new_file_path]
                     /\ pc' = "pf_upload"
                     /\ UNCHANGED ret
                ELSE /\ pc' = "pf_finally"
                     /\ ret' = "False"
                     /\ UNCHANGED loc
    /\ UNCHANGED <<loopVars, drive, nextId, cache, output_dir, cur, envVars>>
    /\ UNCHANGED <<uploads, preexisting, recognized, loads>>

\* Lines 319-322, upload_file (271-297): the file goes to the output folder
\* under its local name; a failure returns None.
PFUpload ==
    /\ pc = "pf_upload"
    /\ \E ok \in Try(0) :
          /\ faults' = faults + Count(~ok)
          /\ Log("upload", ok)
          /\ IF ok
             THEN /\ drive' = drive \cup
                       {[id |-> nextId, name |-> loc.translated_path,
                         parent |-> OUTPUT_FOLDER_ID,
                         mimeType |-> "application/octet-stream",
                         body |-> data[loc.translated_path]]}
                  /\ nextId' = nextId + 1
                  /\ uploads' = Append(uploads, OUTPUT_FOLDER_ID)
                  /\ ret' = "True"
             ELSE /\ ret' = "False"
                  /\ UNCHANGED <<drive, nextId, uploads>>
    /\ pc' = "pf_finally"
    /\ UNCHANGED <<loopVars, cache, output_dir, data, cur, loc, envVars>>
    /\ UNCHANGED <<rmFailed, preexisting, recognized, loads>>

\* Mutant: the finally removes the downloaded file only.
PFFinally_SourceOnly ==
    /\ pc = "pf_finally"
    /\ \E okSource \in Try(0) :
          LET failedSource == RemoveFails(data, loc.file_path, okSource)
          IN /\ okSource \/ failedSource
             /\ data' = Remove(data, loc.file_path, okSource)
             /\ rmFailed' = (rmFailed \/ failedSource)
             /\ faults' = faults + Count(failedSource)
    /\ pc' = "pf_return"
    /\ UNCHANGED <<loopVars, drive, nextId, cache, output_dir, callVars, envVars>>
    /\ UNCHANGED <<steps, uploads, preexisting, recognized, loads>>

\* Lines 327-335: both removals share one try, so a failure of the first
\* skips the second.
PFFinally ==
    /\ pc = "pf_finally"
    /\ \E okSource \in Try(0) :
          LET failedSource == RemoveFails(data, loc.file_path, okSource)
              afterSource == Remove(data, loc.file_path, okSource)
          IN /\ okSource \/ failedSource
             /\ \E okTranslated \in (IF failedSource THEN {TRUE} ELSE Try(0)) :
                   LET failedTranslated ==
                           RemoveFails(afterSource, loc.translated_path, okTranslated)
                   IN /\ okTranslated \/ failedTranslated
                      /\ data' = IF failedSource THEN afterSource
                                 ELSE Remove(afterSource, loc.translated_path,
                                             okTranslated)
                      /\ rmFailed' = (rmFailed \/ failedSource \/ failedTranslated)
                      /\ faults' = faults + Count(failedSource \/ failedTranslated)
    /\ pc' = "pf_return"
    /\ UNCHANGED <<loopVars, drive, nextId, cache, output_dir, callVars, envVars>>
    /\ UNCHANGED <<steps, uploads, preexisting, recognized, loads>>

\* main(), lines 423-424: a file whose call returned True is recorded.
PFReturn ==
    /\ pc = "pf_return"
    /\ processed_files' =
          IF ret = "True" THEN processed_files \cup {cur.id} ELSE processed_files
    /\ pc' = "text_loop"
    /\ cur' = NoFile
    /\ loc' = NoLocals
    /\ ret' = "none"
    /\ steps' = <<>>
    /\ uploads' = <<>>
    /\ preexisting' = FALSE
    /\ UNCHANGED <<cycle, restarts, files, folder, video_processor>>
    /\ UNCHANGED <<storeVars, faults, rmFailed, recognized, loads, envVars>>

\* ------------------------------------------------------------ specification
Next ==
    \/ MainTop \/ TextVisit \/ TextDone
    \/ PFCheck \/ PFDownload \/ PFTranslate \/ PFUpload \/ PFFinally \/ PFReturn
    \/ FolderList \/ FoldersDone \/ VideoVisit \/ VideoDone
    \/ VPInit \/ PVStart \/ PVDownload
    \/ TVExtract \/ TVModel \/ TVPrepare \/ TVRecognize \/ TVWrite \/ TVFinally
    \/ PVArchive \/ PVUpload \/ PVFinally \/ PVReturn
    \/ Sleep \/ Restart

Spec == Init /\ [][Next]_vars

\* The poll loop kept running with no call into the environment failing:
\* main() is one sequential process, each of its steps is taken in turn.
Steady(step) == step /\ faults' = faults
SteadyNext ==
    \/ Steady(MainTop) \/ Steady(TextVisit) \/ Steady(TextDone)
    \/ Steady(PFCheck) \/ Steady(PFDownload) \/ Steady(PFTranslate)
    \/ Steady(PFUpload) \/ Steady(PFFinally) \/ Steady(PFReturn)
    \/ Steady(FolderList) \/ Steady(FoldersDone)
    \/ Steady(VideoVisit) \/ Steady(VideoDone)
    \/ Steady(VPInit) \/ Steady(PVStart) \/ Steady(PVDownload)
    \/ Steady(TVExtract) \/ Steady(TVModel) \/ Steady(TVPrepare)
    \/ Steady(TVRecognize) \/ Steady(TVWrite) \/ Steady(TVFinally)
    \/ Steady(PVArchive) \/ Steady(PVUpload) \/ Steady(PVFinally)
    \/ Steady(PVReturn)
    \/ Steady(Sleep) \/ Steady(Restart)
SteadySpec == Init /\ [][SteadyNext]_vars /\ WF_vars(SteadyNext)

\* ------------------------------------------------- the serializer alone
\* _write_srt and _format_timestamp called directly, on any segment list and
\* any time, with or without a file already at the output path.
UnitTexts == {<<" ">>, <<"a">>, <<" ", "b", " ">>}
UnitSpans == {<<0, 1001>>, <<1500, 3000>>}
UnitSegments ==
    {[start |-> span[1], end |-> span[2], text |-> t] :
        span \in UnitSpans, t \in UnitTexts}
UnitSegLists == UNION {[1..n -> UnitSegments] : n \in 0..MaxSegs}
Times == {0, 1, 999, 1000, 1001, 1002, 1003, 1500, 59999, 60000, 61001,
          3599999, 3600000, 3661500, 86399999, 359999999}
UnitPath == <<"out", ".srt">>

SerializerInit ==
    /\ pc = "unit_idle"
    /\ cycle = 1
    /\ restarts = 0
    /\ processed_files = {}
    /\ files = <<>>
    /\ folder = 0
    /\ video_processor = NoProcessor
    /\ drive = {}
    /\ nextId = 1
    /\ cache \in {EmptyDir, Put(EmptyDir, UnitPath, TextBody)}
    /\ output_dir = EmptyDir
    /\ data = EmptyDir
    /\ cur = NoFile
    /\ \E segments \in UnitSegLists :
          loc = [NoLocals EXCEPT !.segments = segments, !.srt_path = UnitPath]
    /\ ret = "none"
    /\ steps = <<>>
    /\ uploads = <<>>
    /\ faults = 0
    /\ rmFailed = FALSE
    /\ preexisting = FALSE
    /\ recognized = [v \in VideoIds |-> 0]
    /\ loads = <<>>
    /\ speech = [v \in VideoIds |-> <<>>]

\* self._write_srt(segments, srt_path), with a failure at any point of it.
CallWriteSrt ==
    /\ pc = "unit_idle"
    /\ \E failAt \in 0..(Len(loc.segments) + 1) :
          LET written == write_srt(loc.segments, failAt)
          IN /\ cache' = IF written.created
                         THEN Put(cache, loc.srt_path, written.blocks)
                         ELSE cache
             /\ ret' = IF written.ret THEN "True" ELSE "False"
             /\ faults' = faults + Count(loc.segments # <<>>
                                          /\ failAt <= Len(loc.segments))
    /\ pc' = "written"
    /\ UNCHANGED <<loopVars, drive, nextId, output_dir, data, cur, loc, envVars>>
    /\ UNCHANGED <<steps, uploads, rmFailed, preexisting, recognized, loads>>

\* self._format_timestamp(t / 1000) and its rendering.
CallFormatTimestamp ==
    /\ pc = "unit_idle"
    /\ \E t \in Times :
          cur' = [time |-> t,
                  fields |-> format_timestamp(t),
                  text |-> timestamp_text(format_timestamp(t))]
    /\ pc' = "formatted"
    /\ UNCHANGED <<loopVars, storeVars, loc, ret, histVars, envVars>>

SerializerNext == CallWriteSrt \/ CallFormatTimestamp

SerializerSpec == SerializerInit /\ [][SerializerNext]_vars

\* --------------------------------------------------- translate_file alone
\* translate_file called directly on a downloaded file of each kind; every
\* request to the translation service answers with a text, answers with the
\* empty text, or raises.
WORD_MIME == "application/vnd.openxmlformats-officedocument.wordprocessingml.document"
PDF_MIME == "application/pdf"
TEXT_MIME == "text/plain"
MimeExt == [m \in {WORD_MIME, PDF_MIME, TEXT_MIME} |->
               CASE m = WORD_MIME -> ".docx" [] m = PDF_MIME -> ".pdf"
                 [] OTHER -> ".txt"]
Replies == {"text", "empty", "raises"}

\* Line 173: the lines of a text go to the service in chunks of 125.
CHUNK_LINES == 125

\* A text is the list of its lines, text.split("\n"): never an empty list.
\* The paragraphs of a document or the pages of a PDF file, each a one-line
\* text, and the texts of a plain file, with one chunk or two.
UnitLists == UNION {[1..n -> Texts] : n \in 0..MaxUnits}
LineLists ==
    {[i \in 1..n |-> <<"a">>] : n \in {1, CHUNK_LINES, CHUNK_LINES + 1}}
Bodies(mime_type) == IF mime_type = TEXT_MIME THEN LineLists ELSE UnitLists

\* Lines 172-173.
NumChunks(lines) == (Len(lines) + CHUNK_LINES - 1) \div CHUNK_LINES
Chunk(lines, k) ==
    SubSeq(lines, (k - 1) * CHUNK_LINES + 1,
           IF k * CHUNK_LINES < Len(lines) THEN k * CHUNK_LINES ELSE Len(lines))

\* Lines 179-190: the answer to one chunk, as lines.
ChunkReply(chunk, reply) ==
    IF reply = "text" THEN [i \in 1..Len(chunk) |-> <<"T">> \o chunk[i]]
    ELSE <<<<>>>>

\* Line 194: "\n".join(translated_chunks).
RECURSIVE JoinChunks(_, _, _)
JoinChunks(lines, reply, k) ==
    IF k > NumChunks(lines) THEN <<>>
    ELSE ChunkReply(Chunk(lines, k), reply[k]) \o JoinChunks(lines, reply, k + 1)

\* translate_text, lines 168-197: reply[k] answers chunk k; any exception
\* gives None.
translate_text(lines, reply) ==
    IF \E k \in 1..NumChunks(lines) : reply[k] = "raises"
    THEN [none |-> TRUE, lines |-> <<>>]
    ELSE [none |-> FALSE, lines |-> JoinChunks(lines, reply, 1)]

\* "if translated_text:" (lines 215, 229): neither None nor the empty string.
Truthy(translated_text) ==
    ~translated_text.none /\ translated_text.lines # <<<<>>>>

\* Lines 212-216 and 224-236: the paragraphs or pages written to the new
\* document, from unit i on; a blank unit makes no request, a unit whose
\* translation is None or empty is left out.
RECURSIVE translate_units(_, _, _)
translate_units(units, reply, i) ==
    IF i > Len(units) THEN <<>>
    ELSE LET translated_text == translate_text(<<units[i]>>, <<reply[i]>>)
         IN (IF strip(units[i]) # <<>> /\ Truthy(translated_text)
             THEN <<translated_text.lines>> ELSE <<>>)
            \o translate_units(units, reply, i + 1)

\* translate_file, lines 199-269: whether a path is returned (the new file then
\* exists) and the content of the new file.  saved: new_doc.save, writer.write
\* or output_file.write did not raise.
translate_file(mime_type, body, reply, saved) ==
    IF mime_type \in {WORD_MIME, PDF_MIME}
    THEN [returned |-> saved, content |-> translate_units(body, reply, 1)]
    ELSE LET translated_text == translate_text(body, reply)
         IN IF translated_text.none
            THEN [returned |-> FALSE, content |-> <<>>]
            ELSE [returned |-> saved, content |-> translated_text.lines]

\* The requests translate_file makes, in order, with their success: one for
\* every non-blank paragraph or page; for a plain text one per chunk, up to the
\* first that raises.
RECURSIVE UnitRequests(_, _, _)
UnitRequests(units, reply, i) ==
    IF i > Len(units) THEN <<>>
    ELSE (IF strip(units[i]) # <<>>
          THEN <<[name |-> "translate", ok |-> reply[i] # "raises"]>> ELSE <<>>)
         \o UnitRequests(units, reply, i + 1)
RECURSIVE ChunkRequests(_, _, _)
ChunkRequests(lines, reply, k) ==
    IF k > NumChunks(lines) THEN <<>>
    ELSE IF reply[k] = "raises" THEN <<[name |-> "translate", ok |-> FALSE]>>
    ELSE <<[name |-> "translate", ok |-> TRUE]>>
         \o ChunkRequests(lines, reply, k + 1)
Requests(mime_type, body, reply) ==
    IF mime_type \in {WORD_MIME, PDF_MIME} THEN UnitRequests(body, reply, 1)
    ELSE ChunkRequests(body, reply, 1)
NumReplies(mime_type, body) ==
    IF mime_type \in {WORD_MIME, PDF_MIME} THEN Len(body) ELSE NumChunks(body)

TranslatorInit ==
    /\ pc = "translator_idle"
    /\ cycle = 1
    /\ restarts = 0
    /\ processed_files = {}
    /\ files = <<>>
    /\ folder = 0
    /\ video_processor = NoProcessor
    /\ drive = {}
    /\ nextId = 1
    /\ cache = EmptyDir
    /\ output_dir = EmptyDir
    /\ \E mime_type \in DOMAIN MimeExt : \E body \in Bodies(mime_type) :
          /\ cur = [id |-> 1, name |-> <<TextStems[1], MimeExt[mime_type]>>,
                    parent |-> TEXT_TRANSLATION_FOLDER_ID,
                    mimeType |-> mime_type, body |-> body]
          /\ data = Put(EmptyDir, <<TextStems[1], MimeExt[mime_type]>>, body)
          /\ loc = [NoLocals EXCEPT
                       !.file_path = <<TextStems[1], MimeExt[mime_type]>>]
    /\ ret = "none"
    /\ steps = <<>>
    /\ uploads = <<>>
    /\ faults = 0
    /\ rmFailed = FALSE
    /\ preexisting = FALSE
    /\ recognized = [v \in VideoIds |-> 0]
    /\ loads = <<>>
    /\ speech = [v \in VideoIds |-> <<>>]

\* translated_path = translate_file(file_path, file['mimeType']), line 315.
CallTranslateFile ==
    /\ pc = "translator_idle"
    /\ \E reply \in [1..NumReplies(cur.mimeType, cur.body) -> Replies],
          saved \in BOOLEAN :
          LET translated == translate_file(cur.mimeType, cur.body, reply, saved)
              requests == Requests(cur.mimeType, cur.body, reply)
              new_file_path == new_file_name(loc.file_path)
          IN /\ data' = IF translated.returned
                         THEN Put(data, new_file_path, translated.content)
                         ELSE data
             /\ loc' = [loc EXCEPT !.translated_path =
                           IF translated.returned THEN new_file_path ELSE None]
             /\ steps' = requests
             /\ faults' = Len(SelectSeq(requests, LAMBDA r : ~r.ok)) + Count(~saved)
    /\ pc' = "translated"
    /\ UNCHANGED <<loopVars, drive, nextId, cache, output_dir, cur, ret, envVars>>
    /\ UNCHANGED <<uploads, rmFailed, preexisting, recognized, loads>>

TranslatorNext == CallTranslateFile

TranslatorSpec == TranslatorInit /\ [][TranslatorNext]_vars

\* ------------------------------------------------------------------ claims
PVPcs == {"pv_start", "pv_download", "tv_extract", "tv_model", "tv_prepare",
          "tv_recognize", "tv_write", "tv_finally", "pv_archive", "pv_upload",
          "pv_finally", "pv_return"}
PFPcs == {"pf_check", "pf_download", "pf_translate", "pf_upload", "pf_finally",
          "pf_return"}
StepFailed(name) == \E i \in 1..Len(steps) : steps[i].name = name /\ ~steps[i].ok
StepDone(name) == \E i \in 1..Len(steps) : steps[i].name = name /\ steps[i].ok
AnyStepFailed == \E i \in 1..Len(steps) : ~steps[i].ok
Binding == VIDEO_FOLDERS[folder]
Dutch == <<"n", "l">>

\* C1: whenever process_video returns, after success or after a failure at one of
\* its steps (no os.remove having failed), the cache holds neither the video nor
\* its .wav nor its .srt.
C1_NoArtifactsAfterReturn ==
    (pc = "pv_return" /\ ~rmFailed) =>
        \A path \in {cur.name, WavPath(cur.name), SrtPath(cur.name)} :
            ~Exists(cache, path)

\* C2: a subtitle file that _write_srt wrote completely has one block per segment
\* with non-blank text, and the blocks are numbered 1, 2, ..., k.
NonBlank(segments) ==
    Cardinality({i \in 1..Len(segments) : strip(segments[i].text) # <<>>})
C2_ContiguousNumbering ==
    (pc = "tv_finally" /\ loc.tv_ret # None) =>
        LET blocks == cache[loc.tv_ret]
        IN /\ Len(blocks) = NonBlank(loc.segments)
           /\ \A i \in 1..Len(blocks) : blocks[i].index = i

\* C3: the steps of a process_video call are a prefix of extract, recognize,
\* serialize, archive, upload; no step follows a failed one; and the upload is
\* reached only with the four steps before it done.
PipelineOrder == <<"extract", "recognize", "serialize", "archive", "upload">>
IsPipelineStep(e) == \E i \in 1..Len(PipelineOrder) : PipelineOrder[i] = e.name
PipelineSteps == SelectSeq(steps, IsPipelineStep)
C3_StepOrder ==
    pc \in PVPcs =>
        /\ Len(PipelineSteps) <= Len(PipelineOrder)
        /\ \A i \in 1..Len(PipelineSteps) : PipelineSteps[i].name = PipelineOrder[i]
        /\ \A i \in 1..(Len(steps) - 1) : steps[i].ok
        /\ (pc = "pv_upload" \/ StepDone("upload") \/ StepFailed("upload")) =>
              /\ StepDone("extract") /\ StepDone("recognize")
              /\ StepDone("serialize") /\ StepDone("archive")
        /\ pc \in {"pv_finally", "pv_return"} =>
              (AnyStepFailed \/ StepDone("upload"))
C3_Witness ==
    pc = "pv_return" /\ ret = "True" /\ Len(PipelineSteps) = Len(PipelineOrder)

\* C4: a per-file call in which a step failed returns, to its own loop and with
\* the rest of the listing untouched, a result that leaves the file unprocessed.
CallStepContained ==
    pc \in PVPcs \cup PFPcs =>
        /\ pc' \in PVPcs \cup PFPcs \cup {"text_loop", "video_loop"}
        /\ files' = files
        /\ (pc \in {"pv_return", "pf_return"} /\ AnyStepFailed) =>
              (ret = "False" /\ cur.id \notin processed_files')
C4_FailuresContained == [][CallStepContained]_vars

\* C5: a successful process_video uploaded exactly once: to the output folder if
\* the binding's code is 'nl', and to the translation folder otherwise; an absent
\* code made 'en' the recognizer's language.
C5_Routing ==
    (pc = "pv_return" /\ ret = "True") =>
        /\ Len(uploads) = 1
        /\ uploads[1] = OUTPUT_FOLDER_ID <=> Binding.code = Dutch
        /\ Binding.code # Dutch => uploads[1] = TEXT_TRANSLATION_FOLDER_ID
        /\ Binding.code = None => loc.lang_code = <<"e", "n">>
C5_Witness ==
    pc = "pv_return" /\ ret = "True" /\ Binding.code = None /\ Len(uploads) = 1

\* C6: a process_video call that begins with the video's subtitle file already in
\* its destination folder does nothing, and no folder holds two subtitle files of
\* one video.
C6_ExistingOutputIsNoOp ==
    /\ (pc \in PVPcs /\ preexisting) => (steps = <<>> /\ uploads = <<>>)
    /\ \A v \in VideoIds, d \in {OUTPUT_FOLDER_ID, TEXT_TRANSLATION_FOLDER_ID} :
          Cardinality({f \in drive : f.parent = d
                                      /\ f.name = <<VideoStems[v], ".srt">>}) <= 1

\* C7: when the existence query itself succeeded, process_file skipped the file
\* exactly if <stem>_AI_Translated<ext> was in the output folder, and the file it
\* uploads has that name.
Skipped == Len(steps) = 1 /\ ret = "True"
C7_SkipIffTranslatedExists ==
    (pc \in PFPcs \ {"pf_check"} /\ steps[1].ok) =>
        /\ Skipped <=> preexisting
        /\ pc = "pf_upload" =>
              loc.translated_path =
                 splitext(cur.name)[1] \o <<AI_SUFFIX>> \o splitext(cur.name)[2]

\* C8: a process_video call whose archive copy failed still uploaded the subtitle
\* file and returned success.
C8_ArchiveFailureIsAdvisory ==
    (pc = "pv_return" /\ StepFailed("archive")) =>
        (ret = "True" /\ Len(uploads) = 1)

\* C9: the recognizer runs at most once per video in a poll cycle; a video is
\* recorded as processed exactly if process_video returned True; an unrecorded
\* video that the video pass visits is processed, a recorded one never is.
RecordedIffSucceeded ==
    pc = "pv_return" => (cur.id \in processed_files' <=> ret = "True")
VisitedIffUnrecorded ==
    (pc = "video_loop" /\ files # <<>> /\ is_video_file(Head(files).mimeType)) =>
        IF Head(files).id \in processed_files
        THEN pc' = "video_loop" /\ cur' = cur
        ELSE pc' \in {"vp_init", "pv_start"} /\ cur' = Head(files)
C9_RetryOnlyInLaterCycle ==
    /\ [](\A v \in VideoIds : recognized[v] <= 1)
    /\ [](pc \in PVPcs \ {"pv_return"} => cur.id \notin processed_files)
    /\ [][RecordedIffSucceeded]_vars
    /\ [][VisitedIffUnrecorded]_vars
C9_Witness ==
    /\ restarts = 0 /\ Len(loads) = 2
    /\ pc = "tv_write" /\ recognized[cur.id] = 1 /\ cur.id \notin processed_files

\* C10: once a model load failed, the model is not loaded again, the recognizer is
\* not invoked, and every process_video call returns False with its artifacts
\* removed.
C10_FailedLoadIsFinal ==
    (\E i \in 1..Len(loads) : ~loads[i]) =>
        /\ \A i \in 1..Len(loads) : ~loads[i] => i = Len(loads)
        /\ pc \notin {"tv_prepare", "tv_recognize", "tv_write"}
        /\ pc = "pv_return" => ret = "False"
        /\ (pc = "pv_return" /\ ~rmFailed) =>
              (~Exists(cache, cur.name) /\ ~Exists(cache, WavPath(cur.name)))

\* C11: in one session the speech model is loaded at most once, so that every
\* recognizer invocation of the session runs on the one model instance.
ModelLoads == Cardinality({i \in 1..Len(loads) : loads[i]})
C11_ModelLoadedOnce == ModelLoads <= 1

\* C12: after a recognizer result that is no dict, has no 'segments' or has an
\* empty segment list, transcribe_video returns None, the call returns False,
\* and the subtitle file is neither written nor archived nor uploaded.
BadResult ==
    \/ loc.result \in {"not_dict", "no_segments_key"}
    \/ loc.result = "dict" /\ loc.segments = <<>>
StepTaken(name) == \E i \in 1..Len(steps) : steps[i].name = name
C12_BadResultFails ==
    (pc \in PVPcs /\ BadResult) =>
        /\ loc.tv_ret = None
        /\ pc \in {"tv_finally", "pv_finally", "pv_return"}
        /\ pc \in {"pv_finally", "pv_return"} => ret = "False"
        /\ ~StepTaken("serialize") /\ ~StepTaken("archive") /\ ~StepTaken("upload")
        /\ uploads = <<>>
C12_Witness ==
    pc = "pv_return" /\ loc.result = "no_segments_key" /\ ret = "False"

\* C13: a process_video call whose audio extraction failed returns False
\* without having invoked the recognizer, archived or uploaded, and (no
\* os.remove having failed) with the video and its waveform file removed.
C13_ExtractionFailureFails ==
    (pc = "pv_return" /\ StepFailed("extract")) =>
        /\ ret = "False"
        /\ ~StepTaken("recognize") /\ ~StepTaken("serialize")
        /\ ~StepTaken("archive") /\ ~StepTaken("upload")
        /\ uploads = <<>>
        /\ ~rmFailed =>
              (~Exists(cache, cur.name) /\ ~Exists(cache, WavPath(cur.name)))
C13_Witness ==
    /\ pc = "pv_return" /\ StepFailed("extract") /\ ~rmFailed
    /\ loc.audio_path # None

\* C14: a failure while _write_srt writes reaches its caller as an error, not
\* as one of the function's return values.
C14_WriteFailureRaised ==
    (pc = "written" /\ faults > 0) => ret \notin {"True", "False"}

\* C15: _write_srt on an empty list returns False and leaves the output path
\* as it was: no file made, and a file already there not truncated.
EmptyInputStep ==
    (pc = "unit_idle" /\ loc.segments = <<>> /\ pc' = "written") =>
        (ret' = "False" /\ cache' = cache)
C15_EmptyInputWritesNothing == [][EmptyInputStep]_vars
C15_Witness ==
    /\ pc = "written" /\ loc.segments = <<>> /\ ret = "False"
    /\ Exists(cache, UnitPath) /\ cache[UnitPath] = TextBody

\* C16, as claimed: for a time of t whole milliseconds the fields are t div
\* 3600000, (t div 60000) mod 60, (t div 1000) mod 60 and t mod 1000, rendered
\* with 2, 2, 2 and 3 digits.
DigitValue(c) == CHOOSE d \in 0..9 : DigitChars[d + 1] = c
RECURSIVE Number(_)
Number(digits) ==
    IF digits = <<>> THEN 0
    ELSE 10 * Number(SubSeq(digits, 1, Len(digits) - 1)) + DigitValue(digits[Len(digits)])
Rendered(text, fields) ==
    /\ Len(text) = 12
    /\ text[3] = ":" /\ text[6] = ":" /\ text[9] = ","
    /\ Number(SubSeq(text, 1, 2)) = fields.hours
    /\ Number(SubSeq(text, 4, 5)) = fields.minutes
    /\ Number(SubSeq(text, 7, 8)) = fields.seconds
    /\ Number(SubSeq(text, 10, 12)) = fields.milliseconds
WholeFields(t, fields) ==
    /\ fields.hours = t \div 3600000
    /\ fields.minutes = (t \div 60000) % 60
    /\ fields.seconds = (t \div 1000) % 60
    /\ fields.minutes \in 0..59 /\ fields.seconds \in 0..59
    /\ fields.milliseconds \in 0..999
C16_ExactMilliseconds ==
    pc = "formatted" =>
        /\ WholeFields(cur.time, cur.fields)
        /\ cur.fields.milliseconds = cur.time % 1000
        /\ Rendered(cur.text, cur.fields)

\* C16, amended: hours, minutes and seconds are as claimed; the milliseconds are
\* t mod 1000 or one less, never negative and never 1000; the rendering is as
\* claimed.
C16_TruncatedMilliseconds ==
    pc = "formatted" =>
        /\ WholeFields(cur.time, cur.fields)
        /\ cur.fields.milliseconds \in {cur.time % 1000, (cur.time % 1000) - 1}
        /\ Rendered(cur.text, cur.fields)
C16_Witness ==
    pc = "formatted" /\ cur.time = 3599999 /\ cur.fields.milliseconds = 998

\* C18: the blocks of a completely written file are the segments with non-blank
\* text, in the order given, each with its own formatted start and end and its
\* trimmed text.
HasText(segment) == strip(segment.text) # <<>>
C18_EntriesAreKeptSegments ==
    (pc = "written" /\ ret = "True") =>
        LET blocks == cache[loc.srt_path]
            kept == SelectSeq(loc.segments, HasText)
        IN /\ Len(blocks) = Len(kept)
           /\ \A k \in 1..Len(blocks) :
                 /\ blocks[k].text = strip(kept[k].text)
                 /\ blocks[k].start = format_timestamp(kept[k].start)
                 /\ blocks[k].end = format_timestamp(kept[k].end)
C18_Witness ==
    /\ pc = "written" /\ ret = "True"
    /\ Len(loc.segments) = 2 /\ Len(cache[loc.srt_path]) = 2
    /\ loc.segments[1].start > loc.segments[2].start
    /\ loc.segments[1].text = <<" ", "b", " ">>

\* C17: the subtitle file that a process_video call archived, and the one it
\* uploaded, holds at least one block.
Uploaded(id) == CHOOSE f \in drive : f.id = id
C17_NoEmptySubtitle ==
    pc \in PVPcs =>
        /\ StepDone("archive") => output_dir[loc.srt_path] # <<>>
        /\ StepDone("upload") => Uploaded(nextId - 1).body # <<>>

\* C19: every text file recorded as processed has a translated output in the
\* output folder, under the name the existence check looks for or under the
\* name process_file uploads.
TranslatedNames(file_name) ==
    {new_file_name(file_name), splitext(file_name)[1] \o <<AI_SUFFIX, ".srt">>}
C19_ProcessedTextHasOutput ==
    \A f \in drive :
        (f.parent = TEXT_TRANSLATION_FOLDER_ID /\ f.id \in processed_files) =>
            \E g \in drive : /\ g.parent = OUTPUT_FOLDER_ID
                              /\ g.name \in TranslatedNames(f.name)

\* C20: when process_file returns, no os.remove having failed, the Data
\* directory holds neither the downloaded file nor the translated file.
C20_DataCleanAfterReturn ==
    (pc = "pf_return" /\ ~rmFailed) =>
        /\ ~Exists(data, cur.name)
        /\ ~Exists(data, new_file_name(cur.name))
C20_Witness ==
    /\ pc = "pf_return" /\ ~rmFailed /\ StepFailed("upload")
    /\ loc.translated_path = new_file_name(cur.name)

\* C21: only the archive step writes to the archive directory, and only the
\* entry of the subtitle file it copies; the cleanup leaves the directory as it
\* is, and after a successful call the directory holds the subtitle file that
\* was uploaded.
ArchiveKept ==
    IF pc = "pv_archive"
    THEN \A n \in DOMAIN output_dir :
            n # loc.srt_path => (Exists(output_dir', n) /\ output_dir'[n] = output_dir[n])
    ELSE output_dir' = output_dir
ArchiveHoldsUploaded ==
    (pc = "pv_return" /\ ret = "True") =>
        /\ Exists(output_dir, loc.srt_path)
        /\ output_dir[loc.srt_path] = Uploaded(nextId - 1).body
C21_ArchiveSurvivesCleanup == [][ArchiveKept]_vars /\ []ArchiveHoldsUploaded
C21_Witness ==
    /\ pc = "pf_return" /\ cycle = 2
    /\ Exists(output_dir, <<VideoStems[1], ".srt">>)
    /\ output_dir[<<VideoStems[1], ".srt">>] # <<>>
    /\ ~Exists(cache, <<VideoStems[1], ".srt">>)

\* C24: process_file never works on a file whose name contains _AI_Translated,
\* and no file anywhere carries the suffix twice.
SuffixCount(name) == Cardinality({i \in 1..Len(name) : name[i] = AI_SUFFIX})
C24_TranslatedNeverRetranslated ==
    /\ pc \in PFPcs => SuffixCount(cur.name) = 0
    /\ \A f \in drive : SuffixCount(f.name) <= 1
    /\ \A n \in DOMAIN data : SuffixCount(n) <= 1
C24_Witness ==
    /\ pc = "text_loop" /\ files = <<>> /\ cycle = 1 /\ faults = 0
    /\ processed_files = {}
    /\ \E f \in drive : /\ f.parent = TEXT_TRANSLATION_FOLDER_ID
                          /\ SuffixCount(f.name) = 1

\* C23: with the loop running and nothing failing, a video with speech in a
\* folder of another language than Dutch leads to <stem>_AI_Translated.srt in
\* the output folder: once, made from the <stem>.srt that an earlier cycle put
\* into the translation folder.
NonTarget(v) ==
    \E f \in drive, i \in 1..Len(VIDEO_FOLDERS) :
        /\ f.id = v
        /\ f.parent = VIDEO_FOLDERS[i].folder_id
        /\ LangCode(VIDEO_FOLDERS[i]) # Dutch
Named(folder_id, name) == {f \in drive : f.parent = folder_id /\ f.name = name}
TranslatedSubtitles(v) ==
    Named(OUTPUT_FOLDER_ID, <<VideoStems[v], AI_SUFFIX, ".srt">>)
C22_FailedRequestNoOutput ==
    (pc = "translated" /\ StepFailed("translate")) =>
        /\ loc.translated_path = None
        /\ ~Exists(data, new_file_name(cur.name))

====
